---- MODULE Spec2Model ----
(***************************************************************************)
(* A model of server.js (the authenticated server, lines 164-616): the     *)
(* three JSON files, the speakers/content cache globals, the session       *)
(* store and every route handler, cut at the handler's await points.       *)
(*                                                                         *)
(* A request occupies a slot of `req`.  The arrival action runs            *)
(* requireAuth and the handler's synchronous prefix up to its first        *)
(* await; each later action is the continuation that runs when the awaited *)
(* fs / bcrypt call completes, up to the next await or the response.       *)
(* Continuations of different requests interleave freely, as on Node's     *)
(* event loop.                                                             *)
(*                                                                         *)
(* Time: `clock` is Date.now(); a file's mtime is the clock value when its *)
(* write completed.  One clock unit is one millisecond.                    *)
(***************************************************************************)
EXTENDS Integers, Sequences, FiniteSets, TLC

\* ---------------------------------------------------------------- bounds
MaxRequests == 4      \* requests that arrive in one behaviour
MaxTicks    == 1      \* clock advances in one behaviour
MaxSpeakers == 2      \* POST /api/speakers is not issued on a longer array

Slots    == {1, 2}            \* requests in flight at once
Sessions == {"s1", "s2"}      \* browser sessions (cookies)

\* -------------------------------------------------------- program constants
CACHE_TTL == 1000 * 60
StartTime == 2 * CACHE_TTL    \* Date.now() when the server starts listening

\* ------------------------------------------------------------- JS values
\* A speaker's id is any JSON value the caller can send, or NaN once
\* arithmetic has produced it.  Absent means "the key is not in the object".
Num(n)   == [t |-> "num", v |-> n]
NaN      == [t |-> "nan", v |-> 0]
Null     == [t |-> "null", v |-> 0]
StrX     == [t |-> "str", v |-> 0]       \* the string "x"
AbsentId == [t |-> "absent", v |-> 0]
Absent   == "<absent>"                   \* an absent string-valued key

\* Number(v) as Math.max applies it to its arguments.
ToNumber(id) ==
    CASE id.t = "num"  -> id
      [] id.t = "null" -> Num(0)
      [] OTHER         -> NaN

\* The greatest element of a non-empty sequence of integers.
RECURSIVE MaxNum(_)
MaxNum(ns) ==
    IF Len(ns) = 1 THEN Head(ns)
    ELSE LET m == MaxNum(Tail(ns)) IN IF Head(ns) > m THEN Head(ns) ELSE m

\* Math.max(...speakers.map(s => s.id)) on a non-empty array: NaN as soon as
\* one argument converts to NaN.
MathMax(speakers) ==
    IF \E i \in DOMAIN speakers : ToNumber(speakers[i].id) = NaN
    THEN NaN
    ELSE Num(MaxNum([i \in DOMAIN speakers |-> ToNumber(speakers[i].id).v]))

\* Mutant of NextId: the greatest id itself, the + 1 forgotten.
NextIdNoIncrement(speakers) ==
    IF Len(speakers) = 0 THEN Num(1) ELSE MathMax(speakers)

\* speakers.length ? Math.max(...) + 1 : 1
NextId(speakers) ==
    IF Len(speakers) = 0 THEN Num(1)
    ELSE LET m == MathMax(speakers) IN IF m = NaN THEN NaN ELSE Num(m.v + 1)

\* parseInt(req.params.id) for the path segments the model sends.
ParseInt(p) ==
    CASE p = "1"  -> Num(1)
      [] p = "2"  -> Num(2)
      [] p = "2x" -> Num(2)
      [] OTHER    -> NaN

\* s.id === parseInt(req.params.id): strict equality, NaN equals nothing.
IdMatches(rec, p) ==
    /\ rec.id.t = "num"
    /\ ParseInt(p).t = "num"
    /\ rec.id.v = ParseInt(p).v

\* JSON.stringify of a speakers array: NaN is written as null.  A JSON text
\* is represented by the JSON value it denotes, so JSON.parse of a text
\* yields that value.
StringifyRec(rec) == [rec EXCEPT !.id = IF @ = NaN THEN Null ELSE @]
JSONstringify(speakers) == [i \in DOMAIN speakers |-> StringifyRec(speakers[i])]
JSONparse(text) == text

\* Mutant of NewSpeaker: { id: 1, ...req.body }, the collection not looked at.
NewSpeakerIdOne(speakers, body) ==
    [id   |-> IF body.id = AbsentId THEN Num(1) ELSE body.id,
     name |-> body.name]

\* { id: <next id>, ...req.body }
NewSpeaker(speakers, body) ==
    [id   |-> IF body.id = AbsentId THEN NextId(speakers) ELSE body.id,
     name |-> body.name]

\* Mutant of MergeSpeaker: { ...speakers[index], ...req.body }, the id of the
\* body winning.
MergeSpeakerBodyLast(old, body) ==
    [id   |-> IF body.id = AbsentId THEN old.id ELSE body.id,
     name |-> IF body.name = Absent THEN old.name ELSE body.name]

\* { ...speakers[index], ...req.body, id: speakers[index].id }
MergeSpeaker(old, body) ==
    [id   |-> old.id,
     name |-> IF body.name = Absent THEN old.name ELSE body.name]

\* speakers.findIndex(s => s.id === parseInt(req.params.id)); 0 is JS's -1
FindIndex(speakers, p) ==
    IF \E i \in DOMAIN speakers : IdMatches(speakers[i], p)
    THEN CHOOSE i \in DOMAIN speakers :
            /\ IdMatches(speakers[i], p)
            /\ \A j \in DOMAIN speakers : IdMatches(speakers[j], p) => i <= j
    ELSE 0

\* speakers.filter(s => s.id !== parseInt(req.params.id))
KeepRec(rec, p) == ~IdMatches(rec, p)
FilterOut(speakers, p) == SelectSeq(speakers, LAMBDA rec : KeepRec(rec, p))

\* ------------------------------------------------------------- documents
\* The content document: one value per locale (Absent: no such key).
Doc(en, fr) == [en |-> en, fr |-> fr]
DefaultContent == Doc("{}", "{}")            \* { en: {}, fr: {} }
NullDoc == Doc("<null>", "<null>")           \* contentCache = null
\* JSON.stringify / JSON.parse of a content document: the text lists the
\* keys the document has, in their order, each with its value.
DocStringify(doc) ==
    (IF doc.en = Absent THEN <<>> ELSE << << "en", doc.en >> >>) \o
    (IF doc.fr = Absent THEN <<>> ELSE << << "fr", doc.fr >> >>)
Member(text, key) ==
    IF \E i \in DOMAIN text : text[i][1] = key
    THEN text[CHOOSE i \in DOMAIN text : text[i][1] = key][2]
    ELSE Absent
DocParse(text) == Doc(Member(text, "en"), Member(text, "fr"))

\* ----------------------------------------------------------------- users
\* bcrypt.hash(password, 10) and bcrypt.compare(password, hash); the salt is
\* left out, a hash matches exactly the password it was made from.
BcryptHash(password) == [alg |-> "bcrypt", of |-> password]
\* Mutant of BcryptCompare: a comparison that accepts any password.
BcryptCompareAny(password, hash) == hash.alg = "bcrypt"
BcryptCompare(password, hash) == hash.of = password

UserRec(u, p) == [username |-> u, passwordHash |-> BcryptHash(p)]
DefaultUsers == << UserRec("admin", "changeme123") >>

\* users.findIndex(u => u.username === username); 0 is JS's -1
UserIndex(users, u) ==
    IF \E i \in DOMAIN users : users[i].username = u
    THEN CHOOSE i \in DOMAIN users :
            /\ users[i].username = u
            /\ \A j \in DOMAIN users : users[j].username = u => i <= j
    ELSE 0

\* /^[a-zA-Z0-9_-]+$/.test(username), for the usernames the model sends
UsernamePattern(u) == u \in {"admin", "bob"}

\* ----------------------------------------------------------------- state
VARIABLES
    clock,              \* Date.now()
    speakersFile,       \* data/speakers.json: the array its text denotes
    speakersMtime,      \* its mtimeMs
    contentFile,        \* data/content.json
    contentMtime,
    usersFile,          \* data/users.json
    heap,               \* the speakers arrays alive in memory, by reference
    speakersCache,      \* reference of the cached array, NoRef for null
    speakersTimestamp,
    contentCache,       \* the cached document, NullDoc for null
    contentTimestamp,
    session,            \* the session store: session id -> session data
    req,                \* the requests in flight, and their last responses
    nreq,               \* requests arrived so far
    nticks,             \* clock advances so far
    \* History, read by the properties only:
    lastId,             \* the id the latest create gave its record
    justWrote,          \* the document whose write completed in the step
                        \* before, "" once a request arrived or time passed
    settled             \* the document of the latest PUT /api/content that
                        \* completed having overlapped no other, NullDoc
                        \* once another PUT /api/content has arrived

vars == << clock, speakersFile, speakersMtime, contentFile, contentMtime,
           usersFile, heap, speakersCache, speakersTimestamp, contentCache,
           contentTimestamp, session, req, nreq, nticks, lastId, justWrote,
           settled >>

files  == << speakersFile, speakersMtime, contentFile, contentMtime, usersFile >>
caches == << heap, speakersCache, speakersTimestamp, contentCache, contentTimestamp >>
history == << lastId, justWrote, settled >>

NoRef == 0
Refs  == 1 .. (Cardinality(Slots) + 1)

Anonymous == [isAuthenticated |-> FALSE, username |-> ""]

NoRec == [id |-> AbsentId, name |-> Absent]

\* A response: status and JSON body ({error}, {message}, or the payload).
NoResp == [status |-> 0, error |-> "", message |-> "", recs |-> <<>>,
           doc |-> <<>>, username |-> "", authenticated |-> FALSE,
           names |-> <<>>]
ErrorResp(st, e)   == [NoResp EXCEPT !.status = st, !.error = e]
MessageResp(st, m) == [NoResp EXCEPT !.status = st, !.message = m]
\* Mutant of RecsResp: the status of the answer is 404 whatever st is.
RecsRespNotFound(st, rs) == [NoResp EXCEPT !.status = 404, !.recs = rs]
RecsResp(st, rs)   == [NoResp EXCEPT !.status = st, !.recs = rs]
DocResp(st, d)     == [NoResp EXCEPT !.status = st, !.doc = d]

\* A request slot: the request (route, session, parameters, body), the
\* handler's local variables, and the response once sent.
Blank ==
    [pc |-> "idle", route |-> "", sess |-> "s1",
     auth |-> FALSE,            \* req.session.isAuthenticated on arrival
     user |-> "",               \* req.session.username
     pid |-> "",                \* req.params.id
     target |-> "",             \* req.params.username
     bid |-> AbsentId,          \* req.body.id
     bname |-> Absent,          \* req.body.name
     doc |-> NullDoc,           \* req.body of PUT /api/content
     username |-> "",           \* req.body.username
     password |-> "",           \* req.body.password / currentPassword
     newPassword |-> "",        \* req.body.newPassword
     ref |-> NoRef,             \* cacheRef.value, then `speakers`
     snapDoc |-> NullDoc,       \* cacheRef.value of readContentCached
     snapTs |-> 0,              \* timestampRef.value
     idx |-> 0,                 \* index
     newRec |-> NoRec,          \* newSpeaker
     text |-> <<>>,             \* the text passed to fs.writeFile
     users |-> <<>>,            \* users, as parsed
     resp |-> NoResp,
     \* History, read by the properties only:
     quiet |-> FALSE,           \* a cached read that arrived right after a
                                \* write of its document completed, no write
                                \* of it in flight then or started since
     alone |-> FALSE,           \* a PUT /api/content that overlapped no other
     expect |-> NullDoc,        \* `settled` when this GET /api/content
                                \* arrived, NullDoc once a PUT has arrived
     same |-> FALSE]            \* the response was the file's content

Init ==
    /\ clock = StartTime
    /\ speakersFile = <<>>
    /\ speakersMtime = StartTime
    /\ contentFile = DocStringify(DefaultContent)
    /\ contentMtime = StartTime
    /\ usersFile = DefaultUsers
    /\ heap = [o \in Refs |-> <<>>]
    /\ speakersCache = NoRef
    /\ speakersTimestamp = 0
    /\ contentCache = NullDoc
    /\ contentTimestamp = 0
    /\ session = [s \in Sessions |-> Anonymous]
    /\ req = [r \in Slots |-> Blank]
    /\ nreq = 0
    /\ nticks = 0
    /\ lastId = AbsentId
    /\ justWrote = ""
    /\ settled = NullDoc

\* ------------------------------------------------------------ environment
\* Time passes: d milliseconds.
Tick(d) ==
    /\ nticks < MaxTicks
    /\ clock' = clock + d
    /\ nticks' = nticks + 1
    /\ justWrote' = ""
    /\ UNCHANGED << files, caches, session, req, nreq, lastId, settled >>

\* The session's cookie reaches its maxAge: the store drops the session.
Expire(s) ==
    /\ session[s].isAuthenticated
    /\ session' = [session EXCEPT ![s] = Anonymous]
    /\ UNCHANGED << clock, files, caches, req, nreq, nticks, history >>

\* ------------------------------------------------------------- requests
\* A request takes the first slot that holds no request in flight.
Free(r) ==
    /\ nreq < MaxRequests
    /\ req[r].pc \in {"idle", "done"}
    /\ \A r2 \in Slots : req[r2].pc \in {"idle", "done"} => r <= r2

\* Mutant of requireAuth: `if (req.session)`, which every request has.
RequireAuthAnySession(s) == s \in Sessions

\* requireAuth: next() iff req.session.isAuthenticated
requireAuth(s) == session[s].isAuthenticated

Unauthorized == ErrorResp(401, "Unauthorized - Please login")

\* The request as it enters its handler.
Incoming(route, s) ==
    [Blank EXCEPT !.route = route, !.sess = s,
                  !.auth = session[s].isAuthenticated,
                  !.user = session[s].username]

\* res.status(..).json(..): the slot keeps the request and its response.
Respond(q, resp) ==
    [Blank EXCEPT !.pc = "done", !.route = q.route, !.sess = q.sess,
                  !.auth = q.auth, !.user = q.user, !.pid = q.pid,
                  !.target = q.target, !.bid = q.bid, !.bname = q.bname,
                  !.doc = q.doc, !.username = q.username,
                  !.password = q.password, !.newPassword = q.newPassword,
                  !.resp = resp, !.quiet = q.quiet, !.expect = q.expect]

\* A request arrives and changes nothing but its slot.
Arrival(r, q) ==
    /\ req' = [req EXCEPT ![r] = q]
    /\ nreq' = nreq + 1
    /\ justWrote' = ""
    /\ UNCHANGED << clock, files, caches, session, nticks, lastId, settled >>

\* A step of a handler that changes nothing but its slot.
Local(r, q) ==
    /\ req' = [req EXCEPT ![r] = q]
    /\ UNCHANGED << clock, files, caches, session, nreq, nticks, history >>

\* A guarded route answered by requireAuth itself.
Rejected(r, route, s) ==
    /\ Free(r)
    /\ ~requireAuth(s)
    /\ Arrival(r, Respond(Incoming(route, s), Unauthorized))

\* ------------------------------------------------- POST /api/auth/login
\* Mutant of UnknownUser: the answer the password routes give.
UnknownUserNotFound == ErrorResp(404, "User not found")

\* if (!user) return res.status(401)..   and   if (!isValid) return ..
UnknownUser   == ErrorResp(401, "Invalid credentials")
WrongPassword == ErrorResp(401, "Invalid credentials")

LoginSuccess(u) ==
    [NoResp EXCEPT !.status = 200, !.message = "Login successful", !.username = u]

\* Up to `await fs.readFile(USERS_FILE)`.
Login(r, s, u, p) ==
    /\ Free(r)
    /\ LET q == [Incoming("POST /api/auth/login", s)
                    EXCEPT !.username = u, !.password = p]
       IN  Arrival(r,
                IF u = "" \/ p = ""
                THEN Respond(q, ErrorResp(400, "Username and password required"))
                ELSE [q EXCEPT !.pc = "usersRead"])

\* The file is read and parsed; up to `await bcrypt.compare`.
LoginFind(r) ==
    /\ req[r].pc = "usersRead"
    /\ req[r].route = "POST /api/auth/login"
    /\ LET q     == req[r]
           users == usersFile
       IN  Local(r,
                IF UserIndex(users, q.username) = 0
                THEN Respond(q, UnknownUser)
                ELSE [q EXCEPT !.pc = "compare", !.users = users,
                               !.idx = UserIndex(users, q.username)])

\* bcrypt.compare has answered: 401, or the session is set and saved.
LoginVerify(r) ==
    /\ req[r].pc = "compare"
    /\ req[r].route = "POST /api/auth/login"
    /\ LET q     == req[r]
           valid == BcryptCompare(q.password, q.users[q.idx].passwordHash)
       IN  /\ req' = [req EXCEPT ![r] =
                 IF valid THEN Respond(q, LoginSuccess(q.username))
                          ELSE Respond(q, WrongPassword)]
           /\ session' = IF valid
                 THEN [session EXCEPT ![q.sess] =
                          [isAuthenticated |-> TRUE, username |-> q.username]]
                 ELSE session
    /\ UNCHANGED << clock, files, caches, nreq, nticks, history >>

\* ------------------------------------------------ POST /api/auth/logout
Logout(r, s) ==
    /\ Free(r)
    /\ session' = [session EXCEPT ![s] = Anonymous]
    /\ req' = [req EXCEPT ![r] =
            Respond(Incoming("POST /api/auth/logout", s),
                    MessageResp(200, "Logged out successfully"))]
    /\ nreq' = nreq + 1
    /\ justWrote' = ""
    /\ UNCHANGED << clock, files, caches, nticks, lastId, settled >>

\* -------------------------------------------------- GET /api/auth/check
AuthCheck(r, s) ==
    /\ Free(r)
    /\ Arrival(r,
            Respond(Incoming("GET /api/auth/check", s),
                IF session[s].isAuthenticated
                THEN [NoResp EXCEPT !.status = 200, !.authenticated = TRUE,
                                    !.username = session[s].username]
                ELSE [NoResp EXCEPT !.status = 200]))

\* ------------------------------------------------------------ cache system
\* Mutant of Stale: the age of the entry is not looked at.
StaleByMtimeOnly(cacheIsNull, modified, timestamp, now) ==
    \/ cacheIsNull
    \/ modified > timestamp

\* readCached's test: !cacheRef.value || modified > timestampRef.value
\*                    || Date.now() - timestampRef.value > CACHE_TTL
Stale(cacheIsNull, modified, timestamp, now) ==
    \/ cacheIsNull
    \/ modified > timestamp
    \/ now - timestamp > CACHE_TTL

\* The arrays some variable still refers to: the cache global and the
\* `speakers` / cacheRef of the handlers in flight.  Other arrays are garbage.
InUse(cache, rq) == ({cache} \cup {rq[q].ref : q \in Slots}) \ {NoRef}
Collect(h, cache, rq) ==
    [o \in Refs |-> IF o \in InUse(cache, rq) THEN h[o] ELSE <<>>]
\* The reference a newly built array gets, handler r's own reference aside.
FreshRef(r) ==
    LET used == InUse(speakersCache, [req EXCEPT ![r].ref = NoRef])
    IN  CHOOSE o \in Refs \ used : \A o2 \in Refs \ used : o <= o2

SpeakerRoutes == {"GET /api/speakers", "GET /api/speakers/:id",
                  "POST /api/speakers", "PUT /api/speakers/:id",
                  "DELETE /api/speakers/:id"}
ContentRoutes == {"GET /api/content", "PUT /api/content"}

\* History: a write of the document (speakers or content routes) is in flight.
WriteInFlight(routes) ==
    \E r \in Slots : req[r].pc = "writeFile" /\ req[r].route \in routes
\* History: a write of the document starts or completes under a request.
Disturb(q, routes) ==
    IF q.route \in routes /\ q.pc \notin {"idle", "done"}
    THEN [q EXCEPT !.quiet = FALSE] ELSE q

\* What a speakers handler does once readSpeakersCached() has resolved with
\* array `a` of heap `h`, up to its response or its `await fs.writeFile`:
\* the slot, the heap, speakersCache and speakersTimestamp afterwards.
Outcome(q, h, cache, ts) == [q |-> q, heap |-> h, cache |-> cache, ts |-> ts]

ListSpeakers(r, a, h) ==
    Outcome([Respond(req[r], RecsResp(200, JSONstringify(h[a])))
                EXCEPT !.same = (JSONstringify(h[a]) = speakersFile)],
            h, speakersCache, speakersTimestamp)

FindSpeaker(r, a, h) ==
    LET q == req[r]
        i == FindIndex(h[a], q.pid)
    IN  Outcome(IF i = 0
                THEN Respond(q, ErrorResp(404, "Speaker not found"))
                ELSE Respond(q, RecsResp(200, << StringifyRec(h[a][i]) >>)),
                h, speakersCache, speakersTimestamp)

\* speakers.push(newSpeaker); writeSpeakersCached(speakers) up to its await
CreateSpeaker(r, a, h) ==
    LET q == req[r]
        newSpeaker == NewSpeaker(h[a], [id |-> q.bid, name |-> q.bname])
        h2 == [h EXCEPT ![a] = Append(@, newSpeaker)]
    IN  Outcome([q EXCEPT !.pc = "writeFile", !.ref = a,
                          !.newRec = newSpeaker, !.text = JSONstringify(h2[a])],
                h2, a, clock)

UpdateSpeaker(r, a, h) ==
    LET q == req[r]
        index == FindIndex(h[a], q.pid)
        h2 == [h EXCEPT ![a][index] =
                  MergeSpeaker(@, [id |-> q.bid, name |-> q.bname])]
    IN  IF index = 0
        THEN Outcome(Respond(q, ErrorResp(404, "Speaker not found")),
                     h, speakersCache, speakersTimestamp)
        ELSE Outcome([q EXCEPT !.pc = "writeFile", !.ref = a, !.idx = index,
                               !.text = JSONstringify(h2[a])],
                     h2, a, clock)

\* Mutant of RemoveSpeaker: the length comparison left out, the filtered
\* array written whether or not a record went.
RemoveSpeakerNoCheck(r, a, h) ==
    LET q == req[r]
        filtered == FilterOut(h[a], q.pid)
        f  == FreshRef(r)
    IN  Outcome([q EXCEPT !.pc = "writeFile", !.ref = f,
                          !.text = JSONstringify(filtered)],
                [h EXCEPT ![f] = filtered], f, clock)

\* `filtered` is a new array; `speakers` is not used again.
RemoveSpeaker(r, a, h) ==
    LET q == req[r]
        filtered == FilterOut(h[a], q.pid)
        f  == FreshRef(r)
        h2 == [h EXCEPT ![f] = filtered]
    IN  IF Len(filtered) = Len(h[a])
        THEN Outcome(Respond(q, ErrorResp(404, "Not found")),
                     h, speakersCache, speakersTimestamp)
        ELSE Outcome([q EXCEPT !.pc = "writeFile", !.ref = f,
                               !.text = JSONstringify(filtered)],
                     h2, f, clock)

SpeakersHandler(r, a, h) ==
    CASE req[r].route = "GET /api/speakers"        -> ListSpeakers(r, a, h)
      [] req[r].route = "GET /api/speakers/:id"    -> FindSpeaker(r, a, h)
      [] req[r].route = "POST /api/speakers"       -> CreateSpeaker(r, a, h)
      [] req[r].route = "PUT /api/speakers/:id"    -> UpdateSpeaker(r, a, h)
      [] req[r].route = "DELETE /api/speakers/:id" -> RemoveSpeaker(r, a, h)

Continue(r, out) ==
    /\ req' = [r2 \in Slots |->
                IF r2 = r THEN out.q
                ELSE IF out.q.pc = "writeFile" THEN Disturb(req[r2], SpeakerRoutes)
                ELSE req[r2]]
    /\ speakersCache' = out.cache
    /\ speakersTimestamp' = out.ts
    /\ heap' = Collect(out.heap, out.cache, req')
    /\ lastId' = IF out.q.pc = "writeFile" /\ out.q.route = "POST /api/speakers"
                 THEN out.q.newRec.id ELSE lastId
    /\ UNCHANGED << clock, files, contentCache, contentTimestamp, session,
                    nreq, nticks, justWrote, settled >>

\* A speakers request arrives; readSpeakersCached() copies the two globals
\* into cacheRef / timestampRef and awaits fs.stat.
SpeakersRequest(r, q) ==
    Arrival(r, [q EXCEPT !.pc = "stat",
                   !.ref = speakersCache, !.snapTs = speakersTimestamp,
                   !.quiet = (justWrote = "speakers" /\ ~WriteInFlight(SpeakerRoutes))])

GetSpeakers(r, s) ==
    /\ Free(r)
    /\ SpeakersRequest(r, Incoming("GET /api/speakers", s))

GetSpeakerById(r, s, pid) ==
    /\ Free(r)
    /\ SpeakersRequest(r, [Incoming("GET /api/speakers/:id", s) EXCEPT !.pid = pid])

PostSpeakers(r, s, bid, bname) ==
    /\ Free(r)
    /\ requireAuth(s)
    /\ Len(speakersFile) < MaxSpeakers
    /\ speakersCache # NoRef => Len(heap[speakersCache]) < MaxSpeakers
    /\ SpeakersRequest(r, [Incoming("POST /api/speakers", s)
                              EXCEPT !.bid = bid, !.bname = bname])

PutSpeaker(r, s, pid, bid, bname) ==
    /\ Free(r)
    /\ requireAuth(s)
    /\ SpeakersRequest(r, [Incoming("PUT /api/speakers/:id", s)
                              EXCEPT !.pid = pid, !.bid = bid, !.bname = bname])

DeleteSpeaker(r, s, pid) ==
    /\ Free(r)
    /\ requireAuth(s)
    /\ SpeakersRequest(r, [Incoming("DELETE /api/speakers/:id", s)
                              EXCEPT !.pid = pid])

\* fs.stat has answered: the snapshot is returned, or fs.readFile is awaited.
ReadSpeakersStat(r) ==
    /\ req[r].pc = "stat"
    /\ req[r].route \in SpeakerRoutes
    /\ LET q == req[r]
       IN  IF Stale(q.ref = NoRef, speakersMtime, q.snapTs, clock)
           THEN Continue(r, Outcome([q EXCEPT !.pc = "readFile", !.ref = NoRef],
                                    heap, speakersCache, speakersTimestamp))
           ELSE Continue(r, SpeakersHandler(r, q.ref, heap))

\* fs.readFile has answered: the text is parsed into a new array.
ReadSpeakersLoad(r) ==
    /\ req[r].pc = "readFile"
    /\ req[r].route \in SpeakerRoutes
    /\ LET a == FreshRef(r)
           h == [heap EXCEPT ![a] = JSONparse(speakersFile)]
       IN  Continue(r, SpeakersHandler(r, a, h))

\* fs.writeFile(SPEAKERS_FILE, ..) has completed: the handler responds.
WriteSpeakersDone(r) ==
    /\ req[r].pc = "writeFile"
    /\ req[r].route \in SpeakerRoutes
    /\ speakersFile' = req[r].text
    /\ speakersMtime' = clock
    /\ LET q == req[r]
       IN  req' = [r2 \in Slots |->
            IF r2 # r THEN Disturb(req[r2], SpeakerRoutes)
            ELSE CASE q.route = "POST /api/speakers" ->
                    Respond(q, RecsResp(201, << StringifyRec(q.newRec) >>))
              [] q.route = "PUT /api/speakers/:id" ->
                    Respond(q, RecsResp(200, << StringifyRec(heap[q.ref][q.idx]) >>))
              [] OTHER -> Respond(q, MessageResp(200, "Deleted"))]
    /\ heap' = Collect(heap, speakersCache, req')
    /\ justWrote' = "speakers"
    /\ UNCHANGED << clock, contentFile, contentMtime, usersFile, speakersCache,
                    speakersTimestamp, contentCache, contentTimestamp, session,
                    nreq, nticks, lastId, settled >>

\* ------------------------------------------------------------ content API
\* GET /api/content: readContentCached() copies the globals, awaits fs.stat.
GetContent(r, s) ==
    /\ Free(r)
    /\ Arrival(r, [Incoming("GET /api/content", s) EXCEPT
            !.pc = "stat",
            !.snapDoc = contentCache, !.snapTs = contentTimestamp,
            !.quiet = (justWrote = "content" /\ ~WriteInFlight(ContentRoutes)),
            !.expect = settled])

\* res.json(content)
SendContent(q, content) ==
    [Respond(q, DocResp(200, DocStringify(content)))
        EXCEPT !.same = (DocStringify(content) = contentFile)]

\* fs.stat has answered: the snapshot is returned, or fs.readFile is awaited.
ReadContentStat(r) ==
    /\ req[r].pc = "stat"
    /\ req[r].route = "GET /api/content"
    /\ LET q == req[r]
       IN  Local(r, IF Stale(q.snapDoc = NullDoc, contentMtime, q.snapTs, clock)
                    THEN [q EXCEPT !.pc = "readFile"]
                    ELSE SendContent(q, q.snapDoc))

\* fs.readFile has answered: the text is parsed and returned.
ReadContentLoad(r) ==
    /\ req[r].pc = "readFile"
    /\ req[r].route = "GET /api/content"
    /\ Local(r, SendContent(req[r], DocParse(contentFile)))

\* Mutant of CachedContent: the body merged into the cached document.
CachedContentMerged(old, data) ==
    IF old = NullDoc THEN data
    ELSE Doc(IF data.en = Absent THEN old.en ELSE data.en,
             IF data.fr = Absent THEN old.fr ELSE data.fr)

\* writeContentCached(data): contentCache = data
CachedContent(old, data) == data

\* PUT /api/content: writeContentCached(req.body) up to `await fs.writeFile`.
PutContent(r, s, doc) ==
    /\ Free(r)
    /\ requireAuth(s)
    /\ contentCache' = CachedContent(contentCache, doc)
    /\ contentTimestamp' = clock
    /\ req' = [r2 \in Slots |->
            IF r2 = r
            THEN [Incoming("PUT /api/content", s) EXCEPT
                     !.pc = "writeFile", !.doc = doc,
                     !.alone = ~WriteInFlight(ContentRoutes)]
            ELSE [Disturb(req[r2], ContentRoutes) EXCEPT
                     !.alone = FALSE, !.expect = NullDoc]]
    /\ nreq' = nreq + 1
    /\ justWrote' = ""
    /\ settled' = NullDoc
    /\ UNCHANGED << clock, files, heap, speakersCache, speakersTimestamp,
                    session, nticks, lastId >>

\* fs.writeFile(CONTENT_FILE, ..) has completed: the handler responds.
WriteContentDone(r) ==
    /\ req[r].pc = "writeFile"
    /\ req[r].route = "PUT /api/content"
    /\ contentFile' = DocStringify(req[r].doc)
    /\ contentMtime' = clock
    /\ req' = [r2 \in Slots |->
            IF r2 = r
            THEN Respond(req[r], MessageResp(200, "Content updated successfully"))
            ELSE Disturb(req[r2], ContentRoutes)]
    /\ justWrote' = "content"
    /\ settled' = IF req[r].alone THEN req[r].doc ELSE settled
    /\ UNCHANGED << clock, speakersFile, speakersMtime, usersFile, caches,
                    session, nreq, nticks, lastId >>

\* ------------------------------------------------------- POST /api/upload
\* multer has stored the image (or found no `image` field) before the handler.
Upload(r, s, hasFile) ==
    /\ Free(r)
    /\ requireAuth(s)
    /\ Arrival(r,
            Respond(Incoming("POST /api/upload", s),
                    IF hasFile THEN MessageResp(200, "/uploads/<name>")
                               ELSE ErrorResp(400, "No file uploaded")))

\* ------------------------------------------------------- user management
\* Every handler here awaits fs.readFile(USERS_FILE) first.
UsersRequest(r, q, early) ==
    Arrival(r, IF early.status # 0
               THEN Respond(q, early)
               ELSE [q EXCEPT !.pc = "usersRead"])

At(r, pc, route) == req[r].pc = pc /\ req[r].route = route

\* Mutant of SetPassword: the first record is given the hash, not users[i].
SetPasswordFirst(users, i, newPassword) ==
    [users EXCEPT ![1].passwordHash = BcryptHash(newPassword)]

\* users[userIndex].passwordHash = <hash of newPassword>
SetPassword(users, i, newPassword) ==
    [users EXCEPT ![i].passwordHash = BcryptHash(newPassword)]

\* POST /api/auth/change-password
ChangePassword(r, s, cur, new) ==
    /\ Free(r)
    /\ requireAuth(s)
    /\ UsersRequest(r, [Incoming("POST /api/auth/change-password", s)
                           EXCEPT !.password = cur, !.newPassword = new],
            IF cur = "" \/ new = ""
            THEN ErrorResp(400, "Current and new password required")
            ELSE IF Len(new) < 8
            THEN ErrorResp(400, "New password must be at least 8 characters")
            ELSE NoResp)

ChangePasswordFind(r) ==
    /\ At(r, "usersRead", "POST /api/auth/change-password")
    /\ LET q == req[r]
           users == usersFile
           userIndex == UserIndex(users, q.user)
       IN  Local(r, IF userIndex = 0
                    THEN Respond(q, ErrorResp(404, "User not found"))
                    ELSE [q EXCEPT !.pc = "compare", !.users = users,
                                   !.idx = userIndex])

ChangePasswordVerify(r) ==
    /\ At(r, "compare", "POST /api/auth/change-password")
    /\ LET q == req[r]
       IN  Local(r, IF BcryptCompare(q.password, q.users[q.idx].passwordHash)
                    THEN [q EXCEPT !.pc = "hash"]
                    ELSE Respond(q, ErrorResp(401, "Current password is incorrect")))

ChangePasswordHash(r) ==
    /\ At(r, "hash", "POST /api/auth/change-password")
    /\ LET q == req[r]
       IN  Local(r, [q EXCEPT !.pc = "usersWrite",
                       !.users = SetPassword(q.users, q.idx, q.newPassword)])

\* GET /api/users
ListUsers(r, s) ==
    /\ Free(r)
    /\ requireAuth(s)
    /\ UsersRequest(r, Incoming("GET /api/users", s), NoResp)

ListUsersRead(r) ==
    /\ At(r, "usersRead", "GET /api/users")
    /\ Local(r, Respond(req[r], [NoResp EXCEPT !.status = 200,
            !.names = [i \in DOMAIN usersFile |-> usersFile[i].username]]))

\* POST /api/users
CreateUser(r, s, u, p) ==
    /\ Free(r)
    /\ requireAuth(s)
    /\ UsersRequest(r, [Incoming("POST /api/users", s)
                           EXCEPT !.username = u, !.password = p],
            IF u = "" \/ p = ""
            THEN ErrorResp(400, "Username and password required")
            ELSE IF Len(p) < 8
            THEN ErrorResp(400, "Password must be at least 8 characters")
            ELSE IF ~UsernamePattern(u)
            THEN ErrorResp(400, "Username can only contain letters, numbers, underscores, and hyphens")
            ELSE NoResp)

\* Mutant of CreateUserCheck: users.find(..) left out.
CreateUserCheckNoLookup(r) ==
    /\ At(r, "usersRead", "POST /api/users")
    /\ Local(r, [req[r] EXCEPT !.pc = "hash", !.users = usersFile])

CreateUserCheck(r) ==
    /\ At(r, "usersRead", "POST /api/users")
    /\ LET q == req[r]
           users == usersFile
       IN  Local(r, IF UserIndex(users, q.username) # 0
                    THEN Respond(q, ErrorResp(400, "Username already exists"))
                    ELSE [q EXCEPT !.pc = "hash", !.users = users])

CreateUserHash(r) ==
    /\ At(r, "hash", "POST /api/users")
    /\ LET q == req[r]
       IN  Local(r, [q EXCEPT !.pc = "usersWrite",
                       !.users = Append(q.users, UserRec(q.username, q.password))])

\* Mutant of DeleteUser: the comparison with req.session.username left out.
DeleteUserNoSelfCheck(r, s, target) ==
    /\ Free(r)
    /\ requireAuth(s)
    /\ UsersRequest(r, [Incoming("DELETE /api/users/:username", s)
                           EXCEPT !.target = target], NoResp)

\* DELETE /api/users/:username
DeleteUser(r, s, target) ==
    /\ Free(r)
    /\ requireAuth(s)
    /\ UsersRequest(r, [Incoming("DELETE /api/users/:username", s)
                           EXCEPT !.target = target],
            IF target = session[s].username
            THEN ErrorResp(400, "Cannot delete your own account")
            ELSE NoResp)

\* Mutant of DeleteUserRead: the last-user test left out.
DeleteUserReadNoLastCheck(r) ==
    /\ At(r, "usersRead", "DELETE /api/users/:username")
    /\ LET q == req[r]
           users == usersFile
           filteredUsers == SelectSeq(users, LAMBDA u : u.username # q.target)
       IN  Local(r, IF Len(filteredUsers) = Len(users)
                    THEN Respond(q, ErrorResp(404, "User not found"))
                    ELSE [q EXCEPT !.pc = "usersWrite", !.users = filteredUsers])

DeleteUserRead(r) ==
    /\ At(r, "usersRead", "DELETE /api/users/:username")
    /\ LET q == req[r]
           users == usersFile
           filteredUsers == SelectSeq(users, LAMBDA u : u.username # q.target)
       IN  Local(r, IF Len(users) <= 1
                    THEN Respond(q, ErrorResp(400, "Cannot delete the last user"))
                    ELSE IF Len(filteredUsers) = Len(users)
                    THEN Respond(q, ErrorResp(404, "User not found"))
                    ELSE [q EXCEPT !.pc = "usersWrite", !.users = filteredUsers])

\* POST /api/users/:username/reset-password
ResetPassword(r, s, target, new) ==
    /\ Free(r)
    /\ requireAuth(s)
    /\ UsersRequest(r, [Incoming("POST /api/users/:username/reset-password", s)
                           EXCEPT !.target = target, !.newPassword = new],
            IF new = ""
            THEN ErrorResp(400, "New password required")
            ELSE IF Len(new) < 8
            THEN ErrorResp(400, "Password must be at least 8 characters")
            ELSE NoResp)

ResetPasswordFind(r) ==
    /\ At(r, "usersRead", "POST /api/users/:username/reset-password")
    /\ LET q == req[r]
           users == usersFile
           userIndex == UserIndex(users, q.target)
       IN  Local(r, IF userIndex = 0
                    THEN Respond(q, ErrorResp(404, "User not found"))
                    ELSE [q EXCEPT !.pc = "hash", !.users = users,
                                   !.idx = userIndex])

ResetPasswordHash(r) ==
    /\ At(r, "hash", "POST /api/users/:username/reset-password")
    /\ LET q == req[r]
       IN  Local(r, [q EXCEPT !.pc = "usersWrite",
                       !.users = SetPassword(q.users, q.idx, q.newPassword)])

\* Mutant of UsersWriteDone: the write also destroys the sessions of the users
\* the file no longer holds.
UsersWriteDoneDropsSessions(r) ==
    /\ req[r].pc = "usersWrite"
    /\ usersFile' = req[r].users
    /\ session' = [s \in Sessions |->
            IF /\ session[s].isAuthenticated
               /\ UserIndex(req[r].users, session[s].username) = 0
            THEN Anonymous ELSE session[s]]
    /\ LET q == req[r]
       IN  req' = [req EXCEPT ![r] =
            CASE q.route = "POST /api/users" ->
                    Respond(q, [NoResp EXCEPT !.status = 201, !.username = q.username])
              [] q.route = "DELETE /api/users/:username" ->
                    Respond(q, MessageResp(200, "User deleted successfully"))
              [] q.route = "POST /api/users/:username/reset-password" ->
                    Respond(q, MessageResp(200, "Password reset successfully"))
              [] OTHER -> Respond(q, MessageResp(200, "Password changed successfully"))]
    /\ UNCHANGED << clock, speakersFile, speakersMtime, contentFile,
                    contentMtime, caches, nreq, nticks, history >>

\* fs.writeFile(USERS_FILE, JSON.stringify(users)) has completed.
UsersWriteDone(r) ==
    /\ req[r].pc = "usersWrite"
    /\ usersFile' = req[r].users
    /\ LET q == req[r]
       IN  req' = [req EXCEPT ![r] =
            CASE q.route = "POST /api/users" ->
                    Respond(q, [NoResp EXCEPT !.status = 201, !.username = q.username])
              [] q.route = "DELETE /api/users/:username" ->
                    Respond(q, MessageResp(200, "User deleted successfully"))
              [] q.route = "POST /api/users/:username/reset-password" ->
                    Respond(q, MessageResp(200, "Password reset successfully"))
              [] OTHER -> Respond(q, MessageResp(200, "Password changed successfully"))]
    /\ UNCHANGED << clock, speakersFile, speakersMtime, contentFile,
                    contentMtime, caches, session, nreq, nticks, history >>

\* ------------------------------------------------------------ I/O failures
\* The handlers of the authentication and user routes run in try { } catch.
CaughtRoutes == {"POST /api/auth/login", "POST /api/auth/change-password",
                 "GET /api/users", "POST /api/users",
                 "DELETE /api/users/:username",
                 "POST /api/users/:username/reset-password"}

\* res.status(500).json({ error: .. }) of each catch block
FailureMessage(route) ==
    CASE route = "POST /api/auth/login"           -> "Login failed"
      [] route = "POST /api/auth/change-password" -> "Failed to change password"
      [] route = "GET /api/users"                 -> "Failed to get users"
      [] route = "POST /api/users"                -> "Failed to create user"
      [] route = "DELETE /api/users/:username"    -> "Failed to delete user"
      [] OTHER                                    -> "Failed to reset password"

\* fs.readFile / JSON.parse / fs.writeFile of the users file throws inside
\* a try block: the catch block answers 500; the file is as it was.
UsersIOFails(r) ==
    /\ req[r].pc \in {"usersRead", "usersWrite"}
    /\ req[r].route \in CaughtRoutes
    /\ Local(r, Respond(req[r], ErrorResp(500, FailureMessage(req[r].route))))

\* The promise of a handler with no try { } catch has rejected: Express 4
\* does not look at it and the request gets no response.
Unanswered(q) == [Respond(q, NoResp) EXCEPT !.pc = "hung"]
\* Express 5 passes the rejection to its default error handler.
DefaultErrorHandler(q) == Respond(q, ErrorResp(500, "Internal Server Error"))

\* fs.stat / fs.readFile / JSON.parse / fs.writeFile throws in a speakers or
\* content handler, none of which has a try { } catch.  A failed write leaves
\* the file as it was, and the cache as writeXCached had already set it.
CachedIOFails(r, answered) ==
    /\ req[r].pc \in {"stat", "readFile", "writeFile"}
    /\ req[r].route \in SpeakerRoutes \cup ContentRoutes
    /\ LET q == req[r]
           routes == IF q.route \in SpeakerRoutes THEN SpeakerRoutes
                                                 ELSE ContentRoutes
       IN  req' = [r2 \in Slots |->
                IF r2 = r
                THEN IF answered THEN DefaultErrorHandler(q) ELSE Unanswered(q)
                ELSE IF q.pc = "writeFile" THEN Disturb(req[r2], routes)
                ELSE req[r2]]
    /\ heap' = Collect(heap, speakersCache, req')
    /\ UNCHANGED << clock, files, speakersCache, speakersTimestamp,
                    contentCache, contentTimestamp, session, nreq, nticks,
                    history >>

\* ------------------------------------------------------------ the inputs
GuardedRoutes == {"POST /api/speakers", "PUT /api/speakers/:id",
                  "DELETE /api/speakers/:id", "PUT /api/content",
                  "POST /api/upload", "POST /api/auth/change-password",
                  "GET /api/users", "POST /api/users",
                  "DELETE /api/users/:username",
                  "POST /api/users/:username/reset-password"}

PathIds   == {"1", "2x", "abc"}
BodyIds   == {AbsentId, Num(1), Num(5), StrX}
PatchIds  == {AbsentId, Num(5)}
BodyNames == {Absent, "Ada"}
Admin     == "s1"                      \* the session the administrator uses
Documents == {Doc("Hello", "Bonjour"), Doc("Hi", Absent), Doc(Absent, "Salut")}
Usernames == {"", "admin", "bob"}
Passwords == {"", "changeme123", "newpass88"}

\* --------------------------------------------------------- specifications
\* The continuations of the handlers in flight.
AuthSteps    == \E r \in Slots : LoginFind(r) \/ LoginVerify(r)
SpeakerSteps == \E r \in Slots :
                    ReadSpeakersStat(r) \/ ReadSpeakersLoad(r) \/ WriteSpeakersDone(r)
ContentSteps == \E r \in Slots :
                    ReadContentStat(r) \/ ReadContentLoad(r) \/ WriteContentDone(r)
UserSteps    == \E r \in Slots :
                    \/ ChangePasswordFind(r) \/ ChangePasswordVerify(r)
                    \/ ChangePasswordHash(r)
                    \/ ListUsersRead(r)
                    \/ CreateUserCheck(r) \/ CreateUserHash(r)
                    \/ DeleteUserRead(r)
                    \/ ResetPasswordFind(r) \/ ResetPasswordHash(r)
                    \/ UsersWriteDone(r)

\* The administrator logs in with the default credentials.
AdminLogin == \E r \in Slots : Login(r, Admin, "admin", "changeme123")

\* Every route, from an administrator's session and from a visitor's, with
\* one input each.
Next ==
    \/ AdminLogin
    \/ AuthSteps
    \/ \E r \in Slots : Logout(r, Admin)
    \/ \E r \in Slots, s \in Sessions : AuthCheck(r, s)
    \/ Expire(Admin)
    \/ \E r \in Slots, s \in Sessions, route \in GuardedRoutes : Rejected(r, route, s)
    \/ \E r \in Slots, s \in Sessions : GetSpeakers(r, s)
    \/ \E r \in Slots, s \in Sessions : GetSpeakerById(r, s, "1")
    \/ \E r \in Slots, s \in Sessions : PostSpeakers(r, s, AbsentId, "Ada")
    \/ \E r \in Slots, s \in Sessions : PutSpeaker(r, s, "1", AbsentId, Absent)
    \/ \E r \in Slots, s \in Sessions : DeleteSpeaker(r, s, "1")
    \/ SpeakerSteps
    \/ \E r \in Slots, s \in Sessions : GetContent(r, s)
    \/ \E r \in Slots, s \in Sessions : PutContent(r, s, Doc("Hi", Absent))
    \/ ContentSteps
    \/ \E r \in Slots, s \in Sessions, hasFile \in BOOLEAN : Upload(r, s, hasFile)
    \/ \E r \in Slots, s \in Sessions : ChangePassword(r, s, "changeme123", "newpass88")
    \/ \E r \in Slots, s \in Sessions : ListUsers(r, s)
    \/ \E r \in Slots, s \in Sessions : CreateUser(r, s, "bob", "newpass88")
    \/ \E r \in Slots, s \in Sessions : DeleteUser(r, s, "bob")
    \/ \E r \in Slots, s \in Sessions : ResetPassword(r, s, "admin", "newpass88")
    \/ UserSteps
    \/ Tick(1)

Spec == Init /\ [][Next]_vars

\* Sessions: logins with every username and password of the model, from two
\* sessions, against a users file that a created user can extend.
NextAuth ==
    \/ \E r \in Slots, s \in Sessions, u \in Usernames, p \in Passwords :
            Login(r, s, u, p)
    \/ AuthSteps
    \/ \E r \in Slots, s \in Sessions : Logout(r, s)
    \/ \E r \in Slots, s \in Sessions : AuthCheck(r, s)
    \/ \E s \in Sessions : Expire(s)
    \/ \E r \in Slots, s \in Sessions : CreateUser(r, s, "bob", "newpass88")
    \/ \E r \in Slots : CreateUserCheck(r) \/ CreateUserHash(r) \/ UsersWriteDone(r)

SpecAuth == Init /\ [][NextAuth]_vars

\* The speakers API, with every input of the model.
NextSpeakers ==
    \/ AdminLogin
    \/ AuthSteps
    \/ \E r \in Slots : GetSpeakers(r, Admin)
    \/ \E r \in Slots, pid \in PathIds : GetSpeakerById(r, Admin, pid)
    \/ \E r \in Slots, bid \in BodyIds, bname \in BodyNames :
            PostSpeakers(r, Admin, bid, bname)
    \/ \E r \in Slots, pid \in PathIds, bid \in PatchIds, bname \in BodyNames :
            PutSpeaker(r, Admin, pid, bid, bname)
    \/ \E r \in Slots, pid \in PathIds : DeleteSpeaker(r, Admin, pid)
    \/ SpeakerSteps
    \/ Tick(1)

SpecSpeakers == Init /\ [][NextSpeakers]_vars

\* The cache: reads and writes of both cached documents, and time passing by
\* a millisecond, by the cache's time to live and by a millisecond more.
NextCache ==
    \/ AdminLogin
    \/ AuthSteps
    \/ \E r \in Slots : GetSpeakers(r, Admin)
    \/ \E r \in Slots, bname \in {"Ada"} : PostSpeakers(r, Admin, AbsentId, bname)
    \/ SpeakerSteps
    \/ \E r \in Slots : GetContent(r, Admin)
    \/ \E r \in Slots, doc \in Documents : PutContent(r, Admin, doc)
    \/ ContentSteps
    \/ \E d \in {1, CACHE_TTL, CACHE_TTL + 1} : Tick(d)

SpecCache == Init /\ [][NextCache]_vars

\* Every route, with file operations that can fail.
NextFailures ==
    \/ Next
    \/ \E r \in Slots : UsersIOFails(r)
    \/ \E r \in Slots, answered \in BOOLEAN : CachedIOFails(r, answered)

SpecFailures == Init /\ [][NextFailures]_vars

\* Creates of speakers that send no id, under two names.
RaceNames == {"Ada", "Bob"}

NextRace ==
    \/ AdminLogin
    \/ AuthSteps
    \/ \E r \in Slots : GetSpeakers(r, Admin)
    \/ \E r \in Slots, bname \in RaceNames : PostSpeakers(r, Admin, AbsentId, bname)
    \/ SpeakerSteps
    \/ Tick(1)

SpecRace == Init /\ [][NextRace]_vars

\* User management.  ensureDataFiles keeps a users file it finds: the server
\* starts on the default file or on one that holds a second user.
TwoUsers == << UserRec("admin", "changeme123"), UserRec("bob", "bobsecret1") >>

InitUsers ==
    /\ clock = StartTime
    /\ speakersFile = <<>>
    /\ speakersMtime = StartTime
    /\ contentFile = DocStringify(DefaultContent)
    /\ contentMtime = StartTime
    /\ usersFile \in {DefaultUsers, TwoUsers}
    /\ heap = [o \in Refs |-> <<>>]
    /\ speakersCache = NoRef
    /\ speakersTimestamp = 0
    /\ contentCache = NullDoc
    /\ contentTimestamp = 0
    /\ session = [s \in Sessions |-> Anonymous]
    /\ req = [r \in Slots |-> Blank]
    /\ nreq = 0
    /\ nticks = 0
    /\ lastId = AbsentId
    /\ justWrote = ""
    /\ settled = NullDoc

KnownUsers     == {"admin", "bob"}
Targets        == {"admin", "bob", "ghost"}
KnownPasswords == {"changeme123", "bobsecret1", "newpass88"}

NextUsers ==
    \/ \E r \in Slots, s \in Sessions, u \in KnownUsers, p \in KnownPasswords :
            Login(r, s, u, p)
    \/ AuthSteps
    \/ \E r \in Slots, s \in Sessions : ListUsers(r, s)
    \/ \E r \in Slots, s \in Sessions : CreateUser(r, s, "bob", "newpass88")
    \/ \E r \in Slots, s \in Sessions, target \in Targets : DeleteUser(r, s, target)
    \/ \E r \in Slots, s \in Sessions, cur \in {"changeme123", "bobsecret1"} :
            ChangePassword(r, s, cur, "newpass88")
    \/ \E r \in Slots, s \in Sessions, target \in Targets :
            ResetPassword(r, s, target, "newpass88")
    \/ UserSteps

SpecUsers == InitUsers /\ [][NextUsers]_vars

\* ------------------------------------------------------------------------
\* Properties of the speakers resource
\* ------------------------------------------------------------------------
Done(r, route) == req[r].pc = "done" /\ req[r].route = route

\* The step in which the handler of `route` in slot r runs its body: its
\* readSpeakersCached() resolves and it goes on to its write or its response.
RunsBody(r, route) ==
    /\ req[r].route = route
    /\ req[r].pc \in {"stat", "readFile"}
    /\ req'[r].pc \in {"writeFile", "done"}

\* The collection that readSpeakersCached() resolved with in that step.
ReadBy(r) == IF req[r].pc = "stat" THEN heap[req[r].ref] ELSE speakersFile

\* The array speakersCache refers to, before and after the step.
CachedArray  == IF speakersCache = NoRef THEN <<>> ELSE heap[speakersCache]
CachedArray2 == IF speakersCache' = NoRef THEN <<>> ELSE heap'[speakersCache']

AllIntegerIds(speakers) == \A i \in DOMAIN speakers : speakers[i].id.t = "num"
IdsOf(speakers) == {speakers[i].id.v : i \in DOMAIN speakers}
Greatest(S) == CHOOSE m \in S : \A n \in S : n <= m

\* No other request is being handled while slot r takes its step.
OnItsOwn(r) == \A r2 \in Slots \ {r} : req[r2].pc \in {"idle", "done"}

\* C3: create(fields) gives the stored and returned record the id 1 when the
\* collection is empty and max(existing ids) + 1 otherwise, whatever the body;
\* an id sent in the body never becomes the record's id.
C3_CreateAssignsNextId ==
    [][\A r \in Slots :
        (RunsBody(r, "POST /api/speakers") /\ AllIntegerIds(ReadBy(r))) =>
            req'[r].newRec.id =
                IF ReadBy(r) = <<>> THEN Num(1)
                ELSE Num(Greatest(IdsOf(ReadBy(r))) + 1)]_vars

Addressed(speakers, p) ==
    {i \in DOMAIN speakers :
        /\ ParseInt(p).t = "num"
        /\ speakers[i].id = Num(ParseInt(p).v)}
First(S) == CHOOSE i \in S : \A j \in S : i <= j

\* C5: update(id, fields) on a speaker that exists keeps the record's id even
\* when fields.id differs, merges the other fields over the old record (a
\* field the patch does not mention is kept), and leaves every other record,
\* the size and the order of the collection as they were; on an absent id it
\* answers not-found.
C5_UpdateStep(r) ==
    LET before == ReadBy(r)
        hits   == Addressed(before, req[r].pid)
        i      == First(hits)
        after  == CachedArray2
    IN  IF hits = {}
        THEN /\ req'[r].pc = "done"
             /\ req'[r].resp.status = 404
        ELSE /\ req'[r].pc = "writeFile"
             /\ Len(after) = Len(before)
             /\ \A j \in DOMAIN before : j # i => after[j] = before[j]
             /\ after[i].id = before[i].id
             /\ after[i].name = IF req[r].bname = Absent THEN before[i].name
                                ELSE req[r].bname
             /\ req'[r].text = JSONstringify(after)

C5_UpdateKeepsIdAndMerges ==
    /\ [][\A r \in Slots : RunsBody(r, "PUT /api/speakers/:id") => C5_UpdateStep(r)]_vars
    /\ [](\A r \in Slots :
            (Done(r, "PUT /api/speakers/:id") /\ req[r].resp.status = 200) =>
                req[r].resp.recs[1].id = ParseInt(req[r].pid))

\* An update whose body carried another id and no name has been answered
\* with the record: its id is the one in the path, its name is still there.
C5_Witness ==
    \E r \in Slots :
        /\ Done(r, "PUT /api/speakers/:id")
        /\ req[r].resp.status = 200
        /\ req[r].bid = Num(5)
        /\ req[r].bname = Absent
        /\ req[r].resp.recs[1].id # Num(5)
        /\ req[r].resp.recs[1].name = "Ada"

\* C6: delete(id) answers 404 and leaves the file and the cache entry as they
\* were when no record has that id; otherwise it removes the records with
\* that id and no other.
C6_DeleteStep(r) ==
    LET before == ReadBy(r)
        hits   == Addressed(before, req[r].pid)
    IN  IF hits = {}
        THEN /\ req'[r].pc = "done"
             /\ req'[r].resp.status = 404
             /\ UNCHANGED << speakersFile, speakersMtime, speakersTimestamp >>
             /\ (speakersCache' = NoRef) = (speakersCache = NoRef)
             /\ CachedArray2 = CachedArray
        ELSE /\ req'[r].pc = "writeFile"
             /\ Len(CachedArray2) = Len(before) - Cardinality(hits)
             /\ CachedArray2 = SelectSeq(before,
                    LAMBDA rec : \A i \in hits : rec.id # before[i].id)
             /\ req'[r].text = JSONstringify(CachedArray2)

C6_DeleteRemovesOnlyMatches ==
    /\ [][\A r \in Slots : RunsBody(r, "DELETE /api/speakers/:id") => C6_DeleteStep(r)]_vars
    /\ [][\A r \in Slots :
            (Done(r, "DELETE /api/speakers/:id")' /\ req[r].pc = "writeFile") =>
                /\ speakersFile' = req[r].text
                /\ req'[r].resp.status = 200]_vars

\* One delete has been answered 404 while the cache held an array, another 200.
C6_Witness ==
    /\ speakersCache # NoRef
    /\ \E r \in Slots :
        /\ Done(r, "DELETE /api/speakers/:id")
        /\ req[r].resp.status = 404
    /\ \E r \in Slots :
        /\ Done(r, "DELETE /api/speakers/:id")
        /\ req[r].resp.status = 200

\* ------------------------------------------------------------------------
\* Properties of the guard and of the sessions
\* ------------------------------------------------------------------------
\* The step in which a request arrives in slot r.
Arrives(r) == Free(r) /\ nreq' = nreq + 1

\* The speakers, content and users documents, on disk and in the cache.
Stored  == << speakersFile, contentFile, usersFile, CachedArray, contentCache >>
Stored2 == << speakersFile', contentFile', usersFile', CachedArray2, contentCache' >>

\* Slot r's request starts a write of a document or completes one.
Writes(r) ==
    \/ req'[r].pc = "writeFile" /\ (req[r].pc # "writeFile" \/ Arrives(r))
    \/ req[r].pc \in {"writeFile", "usersWrite"} /\ req'[r].pc = "done"

\* C1: a request for a guarded route from a session that is not Authenticated
\* is answered 401 on arrival and changes no document, and every change of
\* the speakers, content or users documents is made by a request for a
\* guarded route whose session was Authenticated when it arrived.
C1_GuardedRoutesNeedLogin ==
    [][/\ \A r \in Slots :
            (/\ Arrives(r)
             /\ req'[r].route \in GuardedRoutes
             /\ ~session[req'[r].sess].isAuthenticated) =>
                /\ req'[r].pc = "done"
                /\ req'[r].resp.status = 401
                /\ Stored2 = Stored
       /\ Stored2 # Stored =>
            \E r \in Slots : /\ Writes(r)
                             /\ req'[r].route \in GuardedRoutes
                             /\ req'[r].auth]_vars

\* A visitor's request for a guarded route has been answered 401 after the
\* administrator's requests have changed a document.
C1_Witness ==
    /\ \E r \in Slots : /\ req[r].pc = "done"
                        /\ req[r].route \in GuardedRoutes
                        /\ ~req[r].auth
                        /\ req[r].resp.status = 401
    /\ \/ speakersFile # <<>>
       \/ contentFile # DocStringify(DefaultContent)
       \/ usersFile # DefaultUsers

\* The credentials of the login in slot r are those of a user of the file.
GoodCredentials(q) ==
    /\ UserIndex(usersFile, q.username) # 0
    /\ usersFile[UserIndex(usersFile, q.username)].passwordHash =
            [alg |-> "bcrypt", of |-> q.password]

\* Session s is set by the login in slot r, which succeeds in this step.
LoggedInBy(s, r) ==
    /\ req[r].route = "POST /api/auth/login"
    /\ req[r].pc = "compare"
    /\ req[r].sess = s
    /\ req'[r].pc = "done"
    /\ req'[r].resp.status = 200
    /\ GoodCredentials(req[r])
    /\ session'[s] = [isAuthenticated |-> TRUE, username |-> req[r].username]

\* Session s is destroyed by a logout that arrives in this step, or expires.
LoggedOut(s) ==
    /\ session'[s] = Anonymous
    /\ \/ \E r \in Slots : /\ Arrives(r)
                           /\ req'[r].route = "POST /api/auth/logout"
                           /\ req'[r].sess = s
       \/ req' = req

\* What the other parts of C2 say, whichever reading of `transition` is taken.
C2_Rest ==
    /\ \A r \in Slots :
        (/\ req'[r].route = "POST /api/auth/login"
         /\ req'[r].pc = "done"
         /\ req'[r].resp.status \in {400, 401}
         /\ req[r].pc # "done" \/ Arrives(r)) => session' = session
    /\ \A r \in Slots :
        (Arrives(r) /\ req'[r].route = "POST /api/auth/logout") =>
            session'[req'[r].sess] = Anonymous
    /\ \A r \in Slots :
        (Arrives(r) /\ req'[r].route = "GET /api/auth/check") =>
            /\ req'[r].resp.authenticated = session[req'[r].sess].isAuthenticated
            /\ session[req'[r].sess].isAuthenticated =>
                    req'[r].resp.username = session[req'[r].sess].username

\* C2, as stated: a session's state (isAuthenticated and username) changes
\* only from Anonymous to Authenticated, on a login with good credentials, and
\* from Authenticated to Anonymous, on logout or expiry.
C2_OnlyTwoTransitions ==
    [][/\ \A s \in Sessions : session'[s] # session[s] =>
            \/ session[s] = Anonymous /\ \E r \in Slots : LoggedInBy(s, r)
            \/ session[s].isAuthenticated /\ LoggedOut(s)
       /\ C2_Rest]_vars

\* C2, amended: isAuthenticated becomes true only on a login with good
\* credentials and false only on logout or expiry; a session's username
\* changes only with these, or on a login with good credentials made from the
\* session while it is Authenticated, which makes it that login's user; a
\* login answered 400 or 401 changes no session, a logout leaves its session
\* Anonymous, and GET /api/auth/check reports the session as it is.
C2_SessionStateMachine ==
    [][/\ \A s \in Sessions : session'[s] # session[s] =>
            \/ \E r \in Slots : LoggedInBy(s, r)
            \/ session[s].isAuthenticated /\ LoggedOut(s)
       /\ C2_Rest]_vars

\* A login with a wrong password has been answered 401 in a session that is
\* still Authenticated, as the user it was.
C2_Witness ==
    \E r \in Slots :
        /\ Done(r, "POST /api/auth/login")
        /\ req[r].resp.status = 401
        /\ req[r].auth
        /\ session[req[r].sess] = [isAuthenticated |-> TRUE, username |-> req[r].user]

\* The one answer of a login that is refused for its credentials.
Refusal == [NoResp EXCEPT !.status = 401, !.error = "Invalid credentials"]

\* C10: a login whose username is not in the users file and a login whose
\* password does not match the user's hash get one and the same answer,
\* status 401 and body { error: 'Invalid credentials' }, and change no session.
C10_SameAnswerForBadCredentials ==
    [][\A r \in Slots :
        /\ (/\ At(r, "usersRead", "POST /api/auth/login")
            /\ req'[r].pc # "usersRead"
            /\ UserIndex(usersFile, req[r].username) = 0) =>
                /\ req'[r].pc = "done"
                /\ req'[r].resp = Refusal
                /\ session' = session
        /\ (/\ At(r, "compare", "POST /api/auth/login")
            /\ req'[r].pc # "compare"
            /\ req[r].users[req[r].idx].passwordHash.of # req[r].password) =>
                /\ req'[r].pc = "done"
                /\ req'[r].resp = Refusal
                /\ session' = session]_vars

\* Two logins of Anonymous sessions have been answered, one for a username
\* that is not in the users file and one for admin with a wrong password; the
\* answers are equal.
C10_Witness ==
    \E r1, r2 \in Slots :
        /\ Done(r1, "POST /api/auth/login") /\ Done(r2, "POST /api/auth/login")
        /\ req[r1].username = "bob" /\ req[r1].password = "changeme123"
        /\ req[r2].username = "admin" /\ req[r2].password = "newpass88"
        /\ usersFile = DefaultUsers
        /\ req[r1].resp = req[r2].resp
        /\ req[r1].resp.status = 401
        /\ \A s \in Sessions : session[s] = Anonymous

\* ------------------------------------------------------------------------
\* Properties of the cache
\* ------------------------------------------------------------------------
\* C7: a GET /api/content that arrives after a PUT /api/content has
\* completed, the PUT having overlapped no other PUT and no PUT having
\* arrived since, is answered with exactly the document of that PUT.
C7_ContentRoundTrip ==
    \A r \in Slots :
        (Done(r, "GET /api/content") /\ req[r].expect # NullDoc) =>
            /\ req[r].resp.status = 200
            /\ DocParse(req[r].resp.doc) = req[r].expect

\* Such a GET has been answered, for a document that lacks a key the
\* document before it had.
C7_Witness ==
    \E r \in Slots :
        /\ Done(r, "GET /api/content")
        /\ req[r].expect \in {Doc("Hi", Absent), Doc(Absent, "Salut")}
        /\ DocParse(req[r].resp.doc) = req[r].expect

\* C8: a GET of a cached document that arrives right after a write of that
\* document has completed, with no write of it in flight then or until the
\* answer, is answered with the content of the file at the time of the answer.
C8_ReadAfterWriteMatchesFile ==
    \A r \in Slots :
        (/\ req[r].pc = "done"
         /\ req[r].route \in {"GET /api/speakers", "GET /api/content"}
         /\ req[r].quiet) => req[r].same

\* C9: a cached read that finds its entry older than CACHE_TTL goes on to
\* read the file, whatever the file's mtime, and answers with the file's
\* content; a cached read answers from memory only if the entry is no older
\* than CACHE_TTL.
C9_ReloadAfterTTL ==
    [][\A r \in Slots :
        /\ (/\ req[r].pc = "stat"
            /\ req'[r].pc # "stat"
            /\ clock - req[r].snapTs > CACHE_TTL) => req'[r].pc = "readFile"
        /\ (/\ req[r].pc = "stat"
            /\ req[r].route \in {"GET /api/speakers", "GET /api/content"}
            /\ req'[r].pc = "done") => clock - req[r].snapTs <= CACHE_TTL
        /\ (/\ At(r, "readFile", "GET /api/content")
            /\ req'[r].pc = "done") => req'[r].resp.doc = contentFile
        /\ (/\ At(r, "readFile", "GET /api/speakers")
            /\ req'[r].pc = "done") =>
                req'[r].resp.recs = JSONstringify(JSONparse(speakersFile))]_vars

\* A GET /api/content is reading the file although the cache held a document
\* and the file is no newer than the entry: the entry is older than CACHE_TTL.
C9_Witness ==
    \E r \in Slots :
        /\ At(r, "readFile", "GET /api/content")
        /\ req[r].snapDoc # NullDoc
        /\ contentMtime <= req[r].snapTs
        /\ clock - req[r].snapTs > CACHE_TTL

\* ------------------------------------------------------------------------
\* Properties of user management
\* ------------------------------------------------------------------------
\* C11: the users file holds a user in every reachable state, whatever the
\* interleaving of the create, delete, change-password and reset-password
\* handlers between their read of the file and their write.
C11_UsersNeverEmpty == Len(usersFile) >= 1

\* Two DELETE /api/users/:username that read the same file of two users have
\* both written, each its own user left out, and a user remains.
C11_Witness ==
    /\ \A r \in Slots : /\ Done(r, "DELETE /api/users/:username")
                        /\ req[r].resp.status = 200
    /\ req[1].target # req[2].target
    /\ Len(usersFile) = 1

\* C12: a DELETE /api/users/:username whose target is the username of its
\* session is answered 400 on arrival, and one that reads a users file of one
\* user is answered 400; neither changes the users file.  A DELETE that goes
\* on to write keeps every record that the list it read holds for the
\* username of its session.
C12_DeleteRefusesLastAndSelf ==
    [][\A r \in Slots :
        /\ (/\ Arrives(r)
            /\ req'[r].route = "DELETE /api/users/:username"
            /\ session[req'[r].sess].isAuthenticated
            /\ req'[r].target = session[req'[r].sess].username) =>
                /\ req'[r].pc = "done"
                /\ req'[r].resp.status = 400
                /\ usersFile' = usersFile
        /\ (/\ At(r, "usersRead", "DELETE /api/users/:username")
            /\ req'[r].pc # "usersRead"
            /\ Len(usersFile) = 1) =>
                /\ req'[r].pc = "done"
                /\ req'[r].resp.status = 400
                /\ usersFile' = usersFile
        /\ (/\ At(r, "usersRead", "DELETE /api/users/:username")
            /\ req'[r].pc = "usersWrite") =>
                \A i \in DOMAIN usersFile :
                    usersFile[i].username = req[r].user =>
                        \E j \in DOMAIN req'[r].users : req'[r].users[j] = usersFile[i]]_vars

\* Both refusals have been given: one DELETE named its own session's user,
\* another named a different user and read a file of one user.
C12_Witness ==
    \E r1, r2 \in Slots :
        /\ Done(r1, "DELETE /api/users/:username")
        /\ req[r1].resp = ErrorResp(400, "Cannot delete your own account")
        /\ Done(r2, "DELETE /api/users/:username")
        /\ req[r2].resp = ErrorResp(400, "Cannot delete the last user")
        /\ req[r2].target # req[r2].user
        /\ Len(usersFile) = 1

\* No two records of the list have the same username.
UniqueUsernames(users) ==
    \A i, j \in DOMAIN users : users[i].username = users[j].username => i = j

\* C13: no two records of the users file have the same username, in any
\* reachable state; a POST /api/users that finds its username in the file it
\* read is answered 400 and changes nothing, and one that does not find it
\* writes the list it read with one record appended.
C13_UsernamesUnique ==
    /\ []UniqueUsernames(usersFile)
    /\ [][\A r \in Slots :
            /\ (/\ At(r, "usersRead", "POST /api/users")
                /\ req'[r].pc # "usersRead"
                /\ UserIndex(usersFile, req[r].username) # 0) =>
                    /\ req'[r].pc = "done"
                    /\ req'[r].resp.status = 400
                    /\ usersFile' = usersFile
            /\ (/\ At(r, "usersWrite", "POST /api/users")
                /\ req'[r].pc = "done") =>
                    /\ Len(usersFile') = Len(req[r].users)
                    /\ UserIndex(SubSeq(usersFile', 1, Len(usersFile') - 1),
                                 req[r].username) = 0
                    /\ usersFile'[Len(usersFile')].username = req[r].username]_vars

\* Two POST /api/users for bob that both read the file before either wrote
\* have both been answered 201; the file holds one record for bob.
C13_Witness ==
    /\ \A r \in Slots : /\ Done(r, "POST /api/users")
                        /\ req[r].resp.status = 201
                        /\ req[r].username = "bob"
    /\ Len(usersFile) = 2
    /\ usersFile[2].username = "bob"

PasswordRoutes == {"POST /api/auth/change-password",
                   "POST /api/users/:username/reset-password"}

\* The user whose password the request in slot r sets.
Subject(r) ==
    IF req[r].route = "POST /api/auth/change-password"
    THEN req[r].user ELSE req[r].target

\* C14: a change-password or reset-password that succeeds has a new password
\* of 8 characters or more (and, for change-password, a current password that
\* matches the hash it read); in the list it writes the user's hash is that of
\* the new password and every other record is as it was read; it makes that
\* list the users file and answers 200.  A login that finds its user answers
\* 200 when its password is the one the hash it read was made from, and 401
\* otherwise: so after the write a login as the user with the new password
\* succeeds and one with the previous password, if different, gets 401.
C14_NewPasswordTakesEffect ==
    [][\A r \in Slots :
        /\ (/\ req[r].route \in PasswordRoutes
            /\ req[r].pc = "hash"
            /\ req'[r].pc = "usersWrite") =>
                LET old == req[r].users
                    new == req'[r].users
                    i   == UserIndex(old, Subject(r))
                IN  /\ i # 0
                    /\ Len(req[r].newPassword) >= 8
                    /\ req[r].route = "POST /api/auth/change-password" =>
                            old[i].passwordHash.of = req[r].password
                    /\ Len(new) = Len(old)
                    /\ new[i].username = Subject(r)
                    /\ new[i].passwordHash.of = req[r].newPassword
                    /\ \A j \in DOMAIN old : j # i => new[j] = old[j]
        /\ (/\ req[r].route \in PasswordRoutes
            /\ req[r].pc = "usersWrite"
            /\ req'[r].pc = "done") =>
                /\ req'[r].resp.status = 200
                /\ usersFile' = req[r].users
        /\ (/\ At(r, "usersRead", "POST /api/auth/login")
            /\ req'[r].pc = "compare") =>
                /\ req'[r].users = usersFile
                /\ req'[r].idx = UserIndex(usersFile, req[r].username)
                /\ req'[r].idx # 0
        /\ (/\ At(r, "compare", "POST /api/auth/login")
            /\ req'[r].pc = "done") =>
                /\ req'[r].resp.status \in {200, 401}
                /\ req'[r].resp.status = 200 <=>
                        req[r].users[req[r].idx].passwordHash.of = req[r].password]_vars

\* bob's password has been set to newpass88: a login as bob with newpass88
\* has been answered 200 and one with bobsecret1 has been answered 401, and
\* admin's record is as it was.
C14_Witness ==
    \E r1, r2 \in Slots :
        /\ Done(r1, "POST /api/auth/login") /\ Done(r2, "POST /api/auth/login")
        /\ req[r1].username = "bob" /\ req[r1].password = "newpass88"
        /\ req[r1].resp.status = 200
        /\ req[r2].username = "bob" /\ req[r2].password = "bobsecret1"
        /\ req[r2].resp.status = 401
        /\ usersFile = << TwoUsers[1], UserRec("bob", "newpass88") >>

\* ------------------------------------------------------------------------
\* Properties of error handling
\* ------------------------------------------------------------------------
\* C15: no handler is left without a response after a file read, a JSON
\* parse or a file write has failed in it: the request is answered, with
\* status 500.
C15_FailuresAnswered500 ==
    \A r \in Slots : req[r].pc # "hung"

\* C16: a cached read that reloads the document from the file leaves the
\* document's cache entry holding what it loaded, with the timestamp of the
\* reload, so that the entry is empty only before the first read.
C16_ReloadFillsCache ==
    [][\A r \in Slots :
        /\ (/\ At(r, "readFile", "GET /api/content")
            /\ req'[r].pc = "done"
            /\ req'[r].resp.status = 200) =>
                /\ contentCache' = DocParse(contentFile)
                /\ contentTimestamp' = clock
        /\ (/\ At(r, "readFile", "GET /api/speakers")
            /\ req'[r].pc = "done"
            /\ req'[r].resp.status = 200) =>
                /\ speakersCache' # NoRef
                /\ CachedArray2 = JSONparse(speakersFile)
                /\ speakersTimestamp' = clock]_vars

\* C17: the cached value of a document is replaced only once the file holds
\* the new document: in any step that changes a cache entry, the file holds
\* the entry's new value afterwards, so a write that fails leaves the entry
\* as it was.
C17_FileWrittenBeforeCache ==
    [][/\ contentCache' # contentCache =>
            contentFile' = DocStringify(contentCache')
       /\ CachedArray2 # CachedArray =>
            speakersFile' = JSONstringify(CachedArray2)]_vars

\* ------------------------------------------------------------------------
\* Properties of concurrent creates
\* ------------------------------------------------------------------------
\* The records of the collection that have the id.
WithId(speakers, id) == {i \in DOMAIN speakers : speakers[i].id = id}

\* The POST /api/speakers in slots r1 and r2 have both been answered 201,
\* with the same id.
SameIdTwice(r1, r2) ==
    /\ r1 # r2
    /\ Done(r1, "POST /api/speakers") /\ Done(r2, "POST /api/speakers")
    /\ req[r1].resp.status = 201 /\ req[r2].resp.status = 201
    /\ req[r1].resp.recs[1].id = req[r2].resp.recs[1].id

\* C18: nothing serialises the creates.  When two POST /api/speakers that sent
\* no id have both been answered 201 with the same id, the file holds at most
\* one record with that id: the write that landed last replaced the other
\* create's record.  Every write makes the file exactly the text its handler
\* built, whatever the file held.
C18_LastWriteWins ==
    /\ [](\A r1, r2 \in Slots :
            SameIdTwice(r1, r2) =>
                Cardinality(WithId(speakersFile, req[r1].resp.recs[1].id)) <= 1)
    /\ [][\A r \in Slots :
            (/\ req[r].pc = "writeFile"
             /\ req[r].route = "POST /api/speakers"
             /\ req'[r].pc = "done") =>
                /\ req'[r].resp.status = 201
                /\ speakersFile' = req[r].text]_vars

\* Two creates, of Ada and of Bob, have both been answered 201 with id 1, and
\* the file holds one record: one of the two.
C18_Witness ==
    \E r1, r2 \in Slots :
        /\ SameIdTwice(r1, r2)
        /\ req[r1].bname = "Ada" /\ req[r2].bname = "Bob"
        /\ req[r1].resp.recs[1].id = Num(1)
        /\ Len(speakersFile) = 1
        /\ speakersFile[1] \in {req[r1].resp.recs[1], req[r2].resp.recs[1]}

\* ------------------------------------------------------------------------
\* Properties of the answers
\* ------------------------------------------------------------------------
\* C19: a DELETE /api/users/:username whose target is not in the users file
\* it reads (and is not its session's user) is answered 404, whatever the
\* number of users; it is answered 400 after the read only when the target is
\* the one user the file holds.
C19_AbsentUserIsNotFound ==
    [][\A r \in Slots :
        (/\ At(r, "usersRead", "DELETE /api/users/:username")
         /\ req'[r].pc # "usersRead") =>
            /\ UserIndex(usersFile, req[r].target) = 0 =>
                    /\ req'[r].pc = "done"
                    /\ req'[r].resp.status = 404
            /\ (req'[r].pc = "done" /\ req'[r].resp.status = 400) =>
                    /\ Len(usersFile) = 1
                    /\ usersFile[1].username = req[r].target]_vars

\* The three files, with their modification times.
Persisted  == << speakersFile, speakersMtime, contentFile, contentMtime, usersFile >>
Persisted2 == << speakersFile', speakersMtime', contentFile', contentMtime', usersFile' >>

\* Slot r's request gets its answer in this step.
Answered(r) == req'[r].pc = "done" /\ (req[r].pc # "done" \/ Arrives(r))

\* C20: the step that answers a request with 400, 401 or 404 writes no file,
\* and that request was not awaiting a file write, so it has written none;
\* every step that writes a file answers the writing request with 200 or 201.
C20_ErrorsWriteNothing ==
    [][/\ \A r \in Slots :
            (Answered(r) /\ req'[r].resp.status \in {400, 401, 404}) =>
                /\ Persisted2 = Persisted
                /\ Arrives(r) \/ req[r].pc \notin {"writeFile", "usersWrite"}
       /\ Persisted2 # Persisted =>
            \E r \in Slots : /\ req[r].pc \in {"writeFile", "usersWrite"}
                             /\ Answered(r)
                             /\ req'[r].resp.status \in {200, 201}]_vars

\* A PUT or DELETE of a speaker that does not exist has been answered 404
\* next to a create answered 201, whose record the file holds.
C20_Witness ==
    \E r1, r2 \in Slots :
        /\ req[r1].pc = "done"
        /\ req[r1].route \in {"PUT /api/speakers/:id", "DELETE /api/speakers/:id"}
        /\ req[r1].resp.status = 404
        /\ Done(r2, "POST /api/speakers")
        /\ req[r2].resp.status = 201
        /\ speakersFile # <<>>

\* ------------------------------------------------------------------------
\* Sessions and user management
\* ------------------------------------------------------------------------
\* The routes that create, delete or change a user record.
UserManagementRoutes == {"POST /api/users", "DELETE /api/users/:username",
                         "POST /api/users/:username/reset-password",
                         "POST /api/auth/change-password"}

\* Slot r's request arrives or takes a step of its handler.
Moves(r) == req'[r] # req[r]

\* A login made from session s is answered 200 in this step and sets s.
OwnLogin(s) ==
    \E r \in Slots :
        /\ req[r].route = "POST /api/auth/login"
        /\ req[r].pc = "compare"
        /\ req[r].sess = s
        /\ req'[r].pc = "done"
        /\ req'[r].resp.status = 200
        /\ session'[s] = [isAuthenticated |-> TRUE, username |-> req[r].username]

\* C21: no step of a create-user, delete-user, reset-password or
\* change-password request changes any session; a session's isAuthenticated
\* and username change only by a login made from that session, by a logout
\* made from it, or by its expiry; and a request for a guarded route from an
\* Authenticated session passes requireAuth (it is not answered 401), whether
\* or not the users file still holds the session's user.
C21_UserManagementLeavesSessions ==
    [][/\ \A r \in Slots :
            (Moves(r) /\ req'[r].route \in UserManagementRoutes) =>
                session' = session
       /\ \A s \in Sessions : session'[s] # session[s] =>
            OwnLogin(s) \/ LoggedOut(s)
       /\ \A r \in Slots :
            (/\ Arrives(r)
             /\ req'[r].route \in GuardedRoutes
             /\ session[req'[r].sess].isAuthenticated) =>
                /\ req'[r].auth
                /\ req'[r].resp.status # 401]_vars

\* A session is Authenticated as a user the users file no longer holds and
\* passes requireAuth, and its GET /api/users has been answered 200 with a
\* list, read after that user's record was deleted, that lacks the user.
C21_Witness ==
    \E r \in Slots :
        /\ Done(r, "GET /api/users")
        /\ req[r].resp.status = 200
        /\ req[r].auth
        /\ session[req[r].sess] = [isAuthenticated |-> TRUE, username |-> req[r].user]
        /\ requireAuth(req[r].sess)
        /\ UserIndex(usersFile, req[r].user) = 0
        /\ \A i \in DOMAIN req[r].resp.names : req[r].resp.names[i] # req[r].user

====
